---- MODULE Spec2Model ----
(***************************************************************************)
(* Model of IrisVector.rs: a typed sparse vector made of a header and a    *)
(* growable collection of optional 1024-slot regions with presence         *)
(* bitmaps, and the 9-byte fixed-point codec used by decimal regions.      *)
(*                                                                         *)
(* Numbers wider than TLC's integers (f64 mantissas, i64 values) are kept  *)
(* as sequences of 15-bit limbs, least significant limb first.             *)
(***************************************************************************)
EXTENDS Integers, Sequences, FiniteSets, TLC

(***************************************************************************)
(* Program constants (IrisVector.rs lines 17-25).                          *)
(***************************************************************************)
VEC_TYPE_INT == 0
VEC_TYPE_DECIMAL == 1
VEC_TYPE_DOUBLE == 2
VECTOR_MAGIC == 35584
VEC_NUM_REGIONS == 64
REGION_SIZE == 1024
BITMAP_SIZE_BYTES == 128
\* the hard-coded scale of the decimal arm of set_value and of get_decimal
DECIMAL_SCALE == 4
\* width of the header fields first and last (u16)
U16_MOD == 65536

(***************************************************************************)
(* Arithmetic on naturals of any size: a natural is a sequence of limbs in *)
(* 0..LIMB-1, least significant first, without leading zero limbs (zero is *)
(* the empty sequence).  Bits are numbered from 1 (the least significant). *)
(* Bound variables of function constructors carry names no operator uses   *)
(* as a parameter: TLC evaluates arguments lazily inside such functions.   *)
(***************************************************************************)
LIMB_BITS == 15
LIMB == 32768

RECURSIVE Pow2(_)
Pow2(k) == IF k = 0 THEN 1 ELSE 2 * Pow2(k - 1)

RECURSIVE IntBitLen(_)
IntBitLen(n) == IF n = 0 THEN 0 ELSE 1 + IntBitLen(n \div 2)

RECURSIVE IntLowZeros(_)
IntLowZeros(n) == IF n % 2 = 1 THEN 0 ELSE 1 + IntLowZeros(n \div 2)

RECURSIVE LTrim(_)
LTrim(a) == IF Len(a) = 0 \/ a[Len(a)] # 0 THEN a ELSE LTrim(SubSeq(a, 1, Len(a) - 1))

RECURSIVE LFromInt(_)
LFromInt(n) == IF n = 0 THEN <<>> ELSE <<n % LIMB>> \o LFromInt(n \div LIMB)

\* for naturals below 2^31 only
RECURSIVE LToInt(_)
LToInt(a) == IF Len(a) = 0 THEN 0 ELSE a[1] + LIMB * LToInt(Tail(a))

LimbAt(a, i) == IF i >= 1 /\ i <= Len(a) THEN a[i] ELSE 0

LZeros(k) == [zi \in 1..k |-> 0]

RECURSIVE LAddCarry(_, _, _, _)
LAddCarry(a, b, i, c) ==
    IF i > Len(a) /\ i > Len(b)
    THEN (IF c = 0 THEN <<>> ELSE <<c>>)
    ELSE LET s == LimbAt(a, i) + LimbAt(b, i) + c
         IN  <<s % LIMB>> \o LAddCarry(a, b, i + 1, s \div LIMB)

LAdd(a, b) == LTrim(LAddCarry(a, b, 1, 0))

\* a * s for a single limb s
RECURSIVE LMulSmallCarry(_, _, _, _)
LMulSmallCarry(a, s, i, c) ==
    IF i > Len(a)
    THEN (IF c = 0 THEN <<>> ELSE <<c>>)
    ELSE LET t == a[i] * s + c
         IN  <<t % LIMB>> \o LMulSmallCarry(a, s, i + 1, t \div LIMB)

LMulSmall(a, s) == LTrim(LMulSmallCarry(a, s, 1, 0))

RECURSIVE LMul(_, _)
LMul(a, b) ==
    IF Len(b) = 0 \/ Len(a) = 0 THEN <<>>
    ELSE LAdd(LMulSmall(a, b[1]), LTrim(<<0>> \o LMul(a, Tail(b))))

LBitLen(a) == IF Len(a) = 0 THEN 0 ELSE LIMB_BITS * (Len(a) - 1) + IntBitLen(a[Len(a)])

LBit(a, i) == (LimbAt(a, ((i - 1) \div LIMB_BITS) + 1) \div Pow2((i - 1) % LIMB_BITS)) % 2

\* a * 2^k
LShl(a, k) ==
    IF Len(a) = 0 THEN a
    ELSE LMulSmall(LZeros(k \div LIMB_BITS) \o a, Pow2(k % LIMB_BITS))

\* a div 2^k
LShr(a, k) ==
    LET d    == k \div LIMB_BITS
        p    == Pow2(k % LIMB_BITS)
        rest == IF d >= Len(a) THEN <<>> ELSE SubSeq(a, d + 1, Len(a))
    IN  LTrim([si \in 1..Len(rest) |->
                  (rest[si] \div p) + (LimbAt(rest, si + 1) % p) * (LIMB \div p)])

\* a mod 2^k
LLow(a, k) ==
    LET d == k \div LIMB_BITS
        p == Pow2(k % LIMB_BITS)
    IN  LTrim([wi \in 1..(d + 1) |-> IF wi <= d THEN LimbAt(a, wi) ELSE LimbAt(a, wi) % p])

RECURSIVE LSubBorrow(_, _, _, _)
LSubBorrow(a, b, i, c) ==
    IF i > Len(a) THEN <<>>
    ELSE LET d == a[i] - LimbAt(b, i) - c
         IN  <<d % LIMB>> \o LSubBorrow(a, b, i + 1, IF d < 0 THEN 1 ELSE 0)

\* a - b for a >= b
LSub(a, b) == LTrim(LSubBorrow(a, b, 1, 0))

\* division by a single limb s, from the most significant limb down:
\* <<quotient limbs i..Len(a), remainder>>
RECURSIVE LDivSmallFrom(_, _, _)
LDivSmallFrom(a, s, i) ==
    IF i > Len(a) THEN << <<>>, 0 >>
    ELSE LET up  == LDivSmallFrom(a, s, i + 1)
             cur == up[2] * LIMB + a[i]
         IN  << <<cur \div s>> \o up[1], cur % s >>

LDivSmall(a, s) ==
    LET qr == LDivSmallFrom(a, s, 1)
    IN  << LTrim(qr[1]), qr[2] >>

\* number of zero bits below the lowest set bit of a non-zero natural
RECURSIVE LLowZeros(_)
LLowZeros(a) == IF a[1] # 0 THEN IntLowZeros(a[1]) ELSE LIMB_BITS + LLowZeros(Tail(a))

\* bitwise and / or of two small naturals (u8, u16)
RECURSIVE AndInt(_, _)
AndInt(x, y) ==
    IF x = 0 \/ y = 0 THEN 0
    ELSE (IF x % 2 = 1 /\ y % 2 = 1 THEN 1 ELSE 0) + 2 * AndInt(x \div 2, y \div 2)

RECURSIVE OrInt(_, _)
OrInt(x, y) ==
    IF x = 0 THEN y
    ELSE IF y = 0 THEN x
    ELSE (IF x % 2 = 1 \/ y % 2 = 1 THEN 1 ELSE 0) + 2 * OrInt(x \div 2, y \div 2)

(***************************************************************************)
(* f64: a finite double is [neg, mant, exp], value (-1)^neg * mant * 2^exp *)
(* with mant a natural of at most 53 bits, kept odd (or zero with exp 0).  *)
(* The exponents of the values used stay far inside the f64 range, so      *)
(* infinities, NaN and subnormals do not arise.                            *)
(***************************************************************************)
F64_MANT_BITS == 53

F64Norm(neg, m, e) ==
    IF Len(m) = 0 THEN [neg |-> neg, mant |-> <<>>, exp |-> 0]
    ELSE LET z == LLowZeros(m)
         IN  [neg |-> neg, mant |-> LShr(m, z), exp |-> e + z]

\* round the exact value m * 2^e to 53 significant bits, ties to even
F64Round(neg, m, e) ==
    IF LBitLen(m) <= F64_MANT_BITS THEN F64Norm(neg, m, e)
    ELSE LET d      == LBitLen(m) - F64_MANT_BITS
             q      == LShr(m, d)
             guard  == LBit(m, d)
             sticky == Len(LLow(m, d - 1)) # 0
             up     == guard = 1 /\ (sticky \/ LBit(q, 1) = 1)
         IN  F64Norm(neg, IF up THEN LAdd(q, <<1>>) ELSE q, e + d)

F64Mul(a, b) == F64Round(a.neg # b.neg, LMul(a.mant, b.mant), a.exp + b.exp)

\* correctly rounded a / b for a divisor whose mantissa is a single limb (as
\* 10^scale is for scale <= 6): the quotient is computed to at least 55 bits
\* and the remainder is folded into a sticky bit below it
F64Div(a, b) ==
    IF Len(a.mant) = 0 THEN F64Norm(a.neg # b.neg, <<>>, 0)
    ELSE LET k0 == F64_MANT_BITS + 2 + LBitLen(b.mant) - LBitLen(a.mant)
             k  == IF k0 > 0 THEN k0 ELSE 0
             qr == LDivSmall(LShl(a.mant, k), b.mant[1])
             st == IF qr[2] = 0 THEN 0 ELSE 1
         IN  F64Round(a.neg # b.neg, LAdd(LShl(qr[1], 1), LFromInt(st)), a.exp - b.exp - k - 1)

F64FromInt(n) == F64Norm(n < 0, LFromInt(IF n < 0 THEN -n ELSE n), 0)

\* 10_f64.powi(scale): exact in f64 for the small scales used
RECURSIVE F64Pow10(_)
F64Pow10(scale) == IF scale = 0 THEN F64FromInt(1) ELSE F64Mul(F64Pow10(scale - 1), F64FromInt(10))

\* the f64 a decimal literal digits / 10^decimals denotes (the nearest double)
F64Lit(digits, decimals) == F64Div(F64FromInt(digits), F64Pow10(decimals))

(***************************************************************************)
(* i64: the 64-bit two's complement pattern, as a natural below 2^64.      *)
(***************************************************************************)
I64_BITS == 64

I64Zero == <<>>

I64IsNeg(v) == LBit(v, I64_BITS) = 1

\* 2^64 and 2^63
I64Modulus == LShl(<<1>>, I64_BITS)
I64Min == LShl(<<1>>, I64_BITS - 1)
I64Max == LSub(I64Min, <<1>>)

\* wrapping negation: (2^64 - v) mod 2^64
I64Neg(v) == IF Len(v) = 0 THEN v ELSE LSub(I64Modulus, v)

\* `x as i64` for a finite f64: truncation toward zero, saturating at the bounds
F64ToI64(x) ==
    LET mag == IF x.exp >= 0 THEN LShl(x.mant, x.exp) ELSE LShr(x.mant, -x.exp)
    IN  IF LBitLen(mag) >= I64_BITS
        THEN (IF x.neg THEN I64Min ELSE I64Max)
        ELSE IF x.neg THEN I64Neg(mag) ELSE mag

\* `v as f64` for an i64: rounded to 53 bits
I64ToF64(v) ==
    IF I64IsNeg(v) THEN F64Round(TRUE, I64Neg(v), 0)
    ELSE F64Round(FALSE, v, 0)

\* i64::abs as the release build computes it (the most negative value wraps)
I64Abs(v) == IF I64IsNeg(v) THEN I64Neg(v) ELSE v

\* i64::abs overflows on the most negative value only: a build with overflow
\* checks panics there, a build without them wraps (I64Abs)
I64AbsOverflows(v) == v = I64Min

\* (v >> k) as u8 for 0 <= k <= 56: bits k+1 .. k+8
I64ShrToU8(v, k) == LToInt(LLow(LShr(v, k), 8))

\* (v << 8) | byte as i64: the low 64 bits of v * 256 + byte
I64Shl8Or(v, byte) ==
    IF Len(v) = 0 THEN LFromInt(byte)
    ELSE LLow(LAdd(LShl(v, 8), LFromInt(byte)), I64_BITS)

(***************************************************************************)
(* Fixed-point codec (IrisVector.rs lines 101-127).  A 9-byte encoding is  *)
(* a function 0..8 -> 0..255, indexed as the Rust array is.                *)
(***************************************************************************)
\* the loop `for i in 0..8 { result[8-i] = (abs_value >> (i * 8)) as u8; }`
\* writes entry 8-i for i = 0..7, that is entry bi from abs_value >> ((8-bi)*8)
StoreMagnitude(sign_byte, abs_value) ==
    [bi \in 0..8 |-> IF bi = 0 THEN sign_byte ELSE I64ShrToU8(abs_value, (8 - bi) * 8)]

convert_to_fixed_point(value, scale) ==
    LET scaled_value == F64ToI64(F64Mul(value, F64Pow10(scale)))
    IN  StoreMagnitude(IF I64IsNeg(scaled_value) THEN 1 ELSE 0, I64Abs(scaled_value))

\* the loop `for i in 1..9 { value = (value << 8) | bytes[i] as i64; }`:
\* the value after the iterations 1..i
RECURSIVE LoadMagnitude(_, _)
LoadMagnitude(bytes, i) ==
    IF i = 0 THEN I64Zero
    ELSE I64Shl8Or(LoadMagnitude(bytes, i - 1), bytes[i])

convert_from_fixed_point(bytes, scale) ==
    LET sign == IF bytes[0] = 0 THEN F64FromInt(1) ELSE F64FromInt(-1)
    IN  F64Div(F64Mul(sign, I64ToF64(LoadMagnitude(bytes, 8))), F64Pow10(scale))

(***************************************************************************)
(* Results.  A Rust Result is [result, ret]: result is "Ok", one of the    *)
(* error messages of the source, or Panic when the call unwinds instead of *)
(* returning (an out-of-bounds index into a Vec or an array).              *)
(***************************************************************************)
Ok == "Ok"
Panic == "panic: index out of bounds"
InvalidType == "Invalid vector type specified"
TypeMismatch == "Cannot change vector type after initialization"
UnsupportedTypeOperation == "Unsupported type operation"
UnsupportedVectorType == "Unsupported vector type"
NoValueAtIndex == "No value set at this index"
RegionNotInitialized == "Not a decimal vector or region not initialized"

\* Option: None, or Some(x)
None == [some |-> FALSE]
Some(x) == [some |-> TRUE, val |-> x]

(***************************************************************************)
(* Header macros (lines 28-50).                                            *)
(***************************************************************************)
get_vector_type(h) == AndInt(h.type_field, 255)

\* is_type without the comparison of the tag
is_type_any(h, type) == get_vector_type(h) = get_vector_type(h)

is_type(h, type) == get_vector_type(h) = type

set_vector_type(h, type) == [h EXCEPT !.type_field = OrInt(VECTOR_MAGIC, type)]

has_type(h) == AndInt(h.type_field, VECTOR_MAGIC) = VECTOR_MAGIC

(***************************************************************************)
(* Strings are sequences of one-character strings, so that to_lowercase    *)
(* is computed.                                                            *)
(***************************************************************************)
UpperCase == <<"A","B","C","D","E","F","G","H","I","J","K","L","M",
               "N","O","P","Q","R","S","T","U","V","W","X","Y","Z">>
LowerCase == <<"a","b","c","d","e","f","g","h","i","j","k","l","m",
               "n","o","p","q","r","s","t","u","v","w","x","y","z">>

LowerOf == [uc \in {UpperCase[ux] : ux \in 1..26} |->
               LowerCase[CHOOSE lx \in 1..26 : UpperCase[lx] = uc]]

char_to_lowercase(c) == IF c \in DOMAIN LowerOf THEN LowerOf[c] ELSE c

to_lowercase(str) == [cx \in 1..Len(str) |-> char_to_lowercase(str[cx])]

\* Vector::type_from_str (lines 155-162)
type_from_str(type_str) ==
    LET lower == to_lowercase(type_str)
    IN  IF lower = <<"i","n","t","e","g","e","r">> THEN Some(VEC_TYPE_INT)
        ELSE IF lower = <<"d","e","c","i","m","a","l">> THEN Some(VEC_TYPE_DECIMAL)
        ELSE IF lower = <<"d","o","u","b","l","e">> THEN Some(VEC_TYPE_DOUBLE)
        ELSE None

(***************************************************************************)
(* Regions (lines 70-99).                                                  *)
(***************************************************************************)
F64Zero == F64FromInt(0)

EmptyBitmap == [bx \in 0..(BITMAP_SIZE_BYTES - 1) |-> 0]

\* the three Some(VectorRegion::..) literals of ensure_region: a slot of the
\* region collection is None or [some, kind, bitmap, data]
NewIntegerRegion ==
    [some |-> TRUE, kind |-> "Integer", bitmap |-> EmptyBitmap, data |-> [dx \in 0..(REGION_SIZE - 1) |-> I64Zero]]
NewDecimalRegion ==
    [some |-> TRUE, kind |-> "Decimal", bitmap |-> EmptyBitmap,
     data |-> [dx \in 0..(REGION_SIZE - 1) |-> [ex \in 0..8 |-> 0]]]
NewDoubleRegion ==
    [some |-> TRUE, kind |-> "Double", bitmap |-> EmptyBitmap, data |-> [dx \in 0..(REGION_SIZE - 1) |-> F64Zero]]

\* set_bitmap_bit storing the mask with `=` where the source has `|=`
set_bitmap_bit_assign(bitmap, offset, value) ==
    LET byte_index == offset \div 8
        bit_index  == offset % 8
    IN  IF value
        THEN [bitmap EXCEPT ![byte_index] = Pow2(bit_index)]
        ELSE [bitmap EXCEPT ![byte_index] = AndInt(bitmap[byte_index], 255 - Pow2(bit_index))]

set_bitmap_bit(bitmap, offset, value) ==
    LET byte_index == offset \div 8
        bit_index  == offset % 8
    IN  IF value
        THEN [bitmap EXCEPT ![byte_index] = OrInt(bitmap[byte_index], Pow2(bit_index))]
        ELSE [bitmap EXCEPT ![byte_index] = AndInt(bitmap[byte_index], 255 - Pow2(bit_index))]

\* the presence test looking at the whole byte instead of the one bit
bitmap_byte_is_set(bitmap, offset) ==
    LET byte_index == offset \div 8
    IN  bitmap[byte_index] # 0

\* the inline presence test of get_decimal (lines 271-274)
bitmap_bit_is_set(bitmap, offset) ==
    LET byte_index == offset \div 8
        bit_index  == offset % 8
    IN  AndInt(bitmap[byte_index], Pow2(bit_index)) # 0

(***************************************************************************)
(* Vector (lines 129-285).  The region collection `regions` is a sequence; *)
(* the Rust index r is position r + 1.                                     *)
(***************************************************************************)
\* Vector::new: the header literal
NewHeader ==
    [type_field |-> 0, format |-> 0, version |-> 0, first |-> 0, last |-> 0, count |-> 0,
     dic_offset |-> 0, dic_length |-> 0, refs |-> 0, uflags |-> 0, vflags |-> 1,
     stats |-> [sx \in 0..18 |-> 0],
     regmap |-> [mx \in 0..(VEC_NUM_REGIONS - 1) |-> 0]]

\* get_region_info dividing by the last offset instead of the region size
get_region_info_off_by_one(index) == <<index \div (REGION_SIZE - 1), index % (REGION_SIZE - 1)>>

get_region_info(index) == <<index \div REGION_SIZE, index % REGION_SIZE>>

RegionAt(regs, region_index) == regs[region_index + 1]

\* the loop `while self.regions.len() <= region_index { self.regions.push(None) }`
PushNones(regs, region_index) ==
    IF Len(regs) > region_index THEN regs
    ELSE regs \o [px \in 1..(region_index + 1 - Len(regs)) |-> None]

\* ensure_region without the store into regmap
ensure_region_no_regmap(h, regs, region_index) ==
    LET grown == PushNones(regs, region_index)
        tag   == get_vector_type(h)
    IN  IF RegionAt(grown, region_index).some
        THEN [header |-> h, regions |-> grown, result |-> Ok]
        ELSE IF tag \notin {VEC_TYPE_INT, VEC_TYPE_DECIMAL, VEC_TYPE_DOUBLE}
        THEN [header |-> h, regions |-> grown, result |-> UnsupportedVectorType]
        ELSE [header  |-> h,
              regions |-> [grown EXCEPT ![region_index + 1] =
                              IF tag = VEC_TYPE_INT THEN NewIntegerRegion
                              ELSE IF tag = VEC_TYPE_DECIMAL THEN NewDecimalRegion
                              ELSE NewDoubleRegion],
              result  |-> IF region_index >= VEC_NUM_REGIONS THEN Panic ELSE Ok]

\* ensure_region allocating an Integer region whatever the type tag is
ensure_region_always_integer(h, regs, region_index) ==
    LET grown == PushNones(regs, region_index)
        tag   == get_vector_type(h)
    IN  IF RegionAt(grown, region_index).some
        THEN [header |-> h, regions |-> grown, result |-> Ok]
        ELSE IF tag \notin {VEC_TYPE_INT, VEC_TYPE_DECIMAL, VEC_TYPE_DOUBLE}
        THEN [header |-> h, regions |-> grown, result |-> UnsupportedVectorType]
        ELSE IF region_index >= VEC_NUM_REGIONS
        THEN [header |-> h, regions |-> [grown EXCEPT ![region_index + 1] = NewIntegerRegion],
              result |-> Panic]
        ELSE [header  |-> [h EXCEPT !.regmap[region_index] = 1],
              regions |-> [grown EXCEPT ![region_index + 1] = NewIntegerRegion],
              result  |-> Ok]

\* Vector::ensure_region (lines 220-252): the vector after the call and the
\* call's outcome.  The store into regmap is bounds-checked: it panics for
\* region_index >= VEC_NUM_REGIONS, after the stores that precede it.
ensure_region(h, regs, region_index) ==
    LET grown == PushNones(regs, region_index)
        tag   == get_vector_type(h)
    IN  IF RegionAt(grown, region_index).some
        THEN [header |-> h, regions |-> grown, result |-> Ok]
        ELSE IF tag \notin {VEC_TYPE_INT, VEC_TYPE_DECIMAL, VEC_TYPE_DOUBLE}
        THEN [header |-> h, regions |-> grown, result |-> UnsupportedVectorType]
        ELSE LET new_region == IF tag = VEC_TYPE_INT THEN NewIntegerRegion
                               ELSE IF tag = VEC_TYPE_DECIMAL THEN NewDecimalRegion
                               ELSE NewDoubleRegion
                 stored     == [grown EXCEPT ![region_index + 1] = new_region]
             IN  IF region_index >= VEC_NUM_REGIONS
                 THEN [header |-> h, regions |-> stored, result |-> Panic]
                 ELSE [header  |-> [h EXCEPT !.regmap[region_index] = 1],
                       regions |-> stored, result |-> Ok]

Min(x, y) == IF x < y THEN x ELSE y
Max(x, y) == IF x > y THEN x ELSE y

\* update_header_for_set storing the latest index in last, without the max
update_header_for_set_last_is_latest(h, index) ==
    [h EXCEPT !.count = h.count + 1,
              !.first = IF h.first < index % U16_MOD THEN h.first ELSE index % U16_MOD,
              !.last  = index % U16_MOD]

\* update_header_for_set counting only the indices that extend the bounds
update_header_for_set_new_bounds(h, index) ==
    [h EXCEPT !.count = IF index % U16_MOD < h.first \/ index % U16_MOD > h.last
                        THEN h.count + 1 ELSE h.count,
              !.first = IF h.first < index % U16_MOD THEN h.first ELSE index % U16_MOD,
              !.last  = IF h.last > index % U16_MOD THEN h.last ELSE index % U16_MOD]

\* Vector::update_header_for_set (lines 260-264); `index as u16` truncates
update_header_for_set(h, index) ==
    [h EXCEPT !.count = h.count + 1,
              !.first = Min(h.first, index % U16_MOD),
              !.last  = Max(h.last, index % U16_MOD)]

\* the slot write keeping the first value of a slot that is already present
WriteSlot_first_wins(regs, region_index, offset, kind, slot) ==
    LET region == regs[region_index + 1]
    IN  IF region.some /\ region.kind = kind /\ ~bitmap_bit_is_set(region.bitmap, offset)
        THEN [regs EXCEPT ![region_index + 1] =
                 [some   |-> TRUE,
                  kind   |-> kind,
                  bitmap |-> set_bitmap_bit(region.bitmap, offset, TRUE),
                  data   |-> [region.data EXCEPT ![offset] = slot]]]
        ELSE regs

\* the slot write of one arm of set_value: skipped when the region at
\* region_index is not of the arm's kind
WriteSlot(regs, region_index, offset, kind, slot) ==
    LET region == RegionAt(regs, region_index)
    IN  IF region.some /\ region.kind = kind
        THEN [regs EXCEPT ![region_index + 1] =
                 [some   |-> TRUE,
                  kind   |-> kind,
                  bitmap |-> set_bitmap_bit(region.bitmap, offset, TRUE),
                  data   |-> [region.data EXCEPT ![offset] = slot]]]
        ELSE regs

\* Vector::set_value (lines 183-217)
set_value(h, regs, index, value) ==
    LET region_index == get_region_info(index)[1]
        offset       == get_region_info(index)[2]
        ensured      == ensure_region(h, regs, region_index)
        tag          == get_vector_type(ensured.header)
    IN  IF ensured.result # Ok THEN ensured
        ELSE IF tag \notin {VEC_TYPE_INT, VEC_TYPE_DECIMAL, VEC_TYPE_DOUBLE}
        THEN [ensured EXCEPT !.result = UnsupportedTypeOperation]
        ELSE LET written_regs ==
                     IF tag = VEC_TYPE_INT
                     THEN WriteSlot(ensured.regions, region_index, offset, "Integer", F64ToI64(value))
                     ELSE IF tag = VEC_TYPE_DECIMAL
                     THEN WriteSlot(ensured.regions, region_index, offset, "Decimal",
                                    convert_to_fixed_point(value, DECIMAL_SCALE))
                     ELSE WriteSlot(ensured.regions, region_index, offset, "Double", value)
             IN  [header  |-> update_header_for_set(ensured.header, index),
                  regions |-> written_regs, result |-> Ok]

\* set storing the type of the call without looking at the type already there
set_always_retypes(h, regs, index, type_str, value) ==
    IF ~type_from_str(type_str).some
    THEN [header |-> h, regions |-> regs, result |-> InvalidType]
    ELSE set_value([h EXCEPT !.type_field = VECTOR_MAGIC + type_from_str(type_str).val],
                   regs, index, value)

\* Vector::set (lines 165-180)
set(h, regs, index, type_str, value) ==
    LET vector_type == type_from_str(type_str)
    IN  IF ~vector_type.some
        THEN [header |-> h, regions |-> regs, result |-> InvalidType]
        ELSE IF ~has_type(h)
        THEN set_value(set_vector_type(h, vector_type.val), regs, index, value)
        ELSE IF ~is_type(h, vector_type.val)
        THEN [header |-> h, regions |-> regs, result |-> TypeMismatch]
        ELSE set_value(h, regs, index, value)

\* Vector::get_decimal (lines 267-282); `&self.regions[region_index]` is a
\* bounds-checked Vec index: it panics for region_index >= regions.len()
get_decimal(regs, index) ==
    LET region_index == get_region_info(index)[1]
        offset       == get_region_info(index)[2]
    IN  IF region_index >= Len(regs)
        THEN [result |-> Panic, ret |-> None]
        ELSE LET region == RegionAt(regs, region_index)
             IN  IF region.some /\ region.kind = "Decimal"
                 THEN (IF bitmap_bit_is_set(region.bitmap, offset)
                       THEN [result |-> Ok,
                             ret |-> Some(convert_from_fixed_point(region.data[offset], DECIMAL_SCALE))]
                       ELSE [result |-> NoValueAtIndex, ret |-> None])
                 ELSE [result |-> RegionNotInitialized, ret |-> None]

\* the getters impl Vector defines (lines 266-285): get_decimal and, where
\* the others would be, the comment `/* Other getters here! */`
VectorGetters == {"get_decimal"}

\* a call of one of the getters the Vector defines
CallGetter(getter, regs, index) ==
    CASE getter = "get_decimal" -> get_decimal(regs, index)

(***************************************************************************)
(* The state machine: one Vector, created by Vector::new, on which a       *)
(* caller issues set and get_decimal calls.  A call that panics ends the   *)
(* run: header and regions then hold what was stored before the panic.     *)
(***************************************************************************)
\* number of set calls a run issues
MaxSets == 3

\* inputs of the calls: indices on both sides of the first region boundary and
\* the first index past the 64 regions, type names in both cases and an
\* unknown one, and two of the literals of example() (neither scales to the
\* most negative i64, where i64::abs depends on the build: see CodecSpec)
Indices == {0, 5, 1023, 1024, 65536}
TypeNames == { <<"i","n","t","e","g","e","r">>, <<"d","e","c","i","m","a","l">>,
               <<"D","o","u","b","l","e">>, <<"f","l","o","a","t">> }
Values == { F64Lit(1234567, 4), F64Lit(-45678, 3) }

VARIABLES
    header,    \* Vector.header
    regions,   \* Vector.regions
    call,      \* the last call: its index and type name, and what it returned
    written,   \* history: index -> value of the last successful set at it
    okSets,    \* history: number of set calls that returned Ok
    okTypes,   \* history: the type constants of the set calls that returned Ok
    nSets,     \* number of set calls issued
    codec      \* a run of the fixed-point codec on its own (CodecSpec)

vars == <<header, regions, call, written, okSets, okTypes, nSets, codec>>

Panicked == call.result = Panic

ZeroBytes == [ux \in 0..8 |-> 0]

\* no codec run: the codec is exercised through set and get_decimal
CodecIdle ==
    [pc |-> "idle", overflow_checks |-> FALSE, value |-> F64Zero, scaled |-> I64Zero,
     bytes |-> ZeroBytes, decoded |-> F64Zero]

Init ==
    /\ header = NewHeader
    /\ regions = <<>>
    /\ call = [op |-> "new", index |-> 0, type_str |-> <<>>, result |-> Ok, ret |-> None]
    /\ written = <<>>
    /\ okSets = 0
    /\ okTypes = {}
    /\ nSets = 0
    /\ codec = CodecIdle

SetCall(index, type_str, value) ==
    /\ ~Panicked
    /\ nSets < MaxSets
    /\ \E after \in {set(header, regions, index, type_str, value)} :
           /\ header' = after.header
           /\ regions' = after.regions
           /\ call' = [op |-> "set", index |-> index, type_str |-> type_str,
                       result |-> after.result, ret |-> None]
           /\ written' = IF after.result = Ok
                         THEN [wx \in (DOMAIN written) \cup {index} |->
                                  IF wx = index THEN value ELSE written[wx]]
                         ELSE written
           /\ okSets' = IF after.result = Ok THEN okSets + 1 ELSE okSets
           /\ okTypes' = IF after.result = Ok
                         THEN okTypes \cup {type_from_str(type_str).val}
                         ELSE okTypes
    /\ nSets' = nSets + 1
    /\ UNCHANGED codec

GetDecimalCall(index) ==
    /\ ~Panicked
    /\ \E got \in {get_decimal(regions, index)} :
           call' = [op |-> "get_decimal", index |-> index, type_str |-> <<>>,
                    result |-> got.result, ret |-> got.ret]
    /\ UNCHANGED <<header, regions, written, okSets, okTypes, nSets, codec>>

Next ==
    \/ \E index \in Indices, type_str \in TypeNames, value \in Values :
          SetCall(index, type_str, value)
    \/ \E index \in Indices : GetDecimalCall(index)

Spec == Init /\ [][Next]_vars

(***************************************************************************)
(* The fixed-point codec on its own: convert_to_fixed_point applied to a   *)
(* value at the scale set_value passes, then convert_from_fixed_point      *)
(* applied to the 9 bytes.  The build decides what i64::abs does with the  *)
(* most negative value: with overflow checks (the debug profile) it        *)
(* panics, without them (the release profile) it wraps; a run takes either.*)
(* The Vector is left as Vector::new made it.                              *)
(***************************************************************************)
\* the values k / 10^4 for |k| up to MaxScaled
MaxScaled == 60

\* values of at most 4 decimal digits: k / 10000 and the literals of example()
FourDecimalValues ==
    {F64Lit(k, DECIMAL_SCALE) : k \in (-MaxScaled)..MaxScaled} \cup Values

\* +-9e14, which scale to +-9e18 inside the i64 range, and +-1e15, which scale
\* to +-1e19 outside it: the cast to i64 saturates at i64::MAX and i64::MIN
LargeValues ==
    { F64Mul(F64FromInt(s * 900000000), F64FromInt(1000000)) : s \in {-1, 1} }
    \cup { F64Mul(F64FromInt(s * 1000000000), F64FromInt(1000000)) : s \in {-1, 1} }

CodecValues == FourDecimalValues \cup LargeValues

CodecInit ==
    /\ header = NewHeader
    /\ regions = <<>>
    /\ call = [op |-> "new", index |-> 0, type_str |-> <<>>, result |-> Ok, ret |-> None]
    /\ written = <<>>
    /\ okSets = 0
    /\ okTypes = {}
    /\ nSets = 0
    /\ \E value \in CodecValues, overflow_checks \in BOOLEAN :
          codec = [CodecIdle EXCEPT !.pc = "start", !.value = value,
                                    !.overflow_checks = overflow_checks]

\* convert_to_fixed_point(value, 4), with scaled_value kept for the properties
EncodeCall ==
    /\ codec.pc = "start"
    /\ \E scaled_value \in {F64ToI64(F64Mul(codec.value, F64Pow10(DECIMAL_SCALE)))} :
          codec' = IF codec.overflow_checks /\ I64AbsOverflows(scaled_value)
                   THEN [codec EXCEPT !.pc = "panic", !.scaled = scaled_value]
                   ELSE [codec EXCEPT !.pc = "encoded", !.scaled = scaled_value,
                                      !.bytes = convert_to_fixed_point(codec.value, DECIMAL_SCALE)]
    /\ UNCHANGED <<header, regions, call, written, okSets, okTypes, nSets>>

\* convert_from_fixed_point(&bytes, 4)
DecodeCall ==
    /\ codec.pc = "encoded"
    /\ codec' = [codec EXCEPT !.pc = "decoded",
                              !.decoded = convert_from_fixed_point(codec.bytes, DECIMAL_SCALE)]
    /\ UNCHANGED <<header, regions, call, written, okSets, okTypes, nSets>>

CodecNext == EncodeCall \/ DecodeCall

CodecSpec == CodecInit /\ [][CodecNext]_vars

(***************************************************************************)
(* Reading the state, for the properties below.                            *)
(***************************************************************************)
\* the slot of the region collection for region number r; None past its end
RegionOrNone(regs, r) == IF r < Len(regs) THEN regs[r + 1] ELSE None

Allocated(regs, r) == RegionOrNone(regs, r).some

\* the presence bit of a global index, read straight from the bitmap byte
Present(regs, i) ==
    /\ Allocated(regs, i \div REGION_SIZE)
    /\ (RegionOrNone(regs, i \div REGION_SIZE).bitmap[(i % REGION_SIZE) \div 8]
           \div Pow2((i % REGION_SIZE) % 8)) % 2 = 1

\* the stored slot of a global index in an allocated region
SlotAt(regs, i) == RegionOrNone(regs, i \div REGION_SIZE).data[i % REGION_SIZE]

\* a step of the behaviour that is a set call
IsSetStep == nSets' = nSets + 1

IsDecimalVector == has_type(header) /\ get_vector_type(header) = VEC_TYPE_DECIMAL

\* first index past the 64 regions of 1024 slots
CapacityEnd == VEC_NUM_REGIONS * REGION_SIZE

(***************************************************************************)
(* C1 - type lock-in: once a set call has returned Ok with type T, every   *)
(* later set call whose type name parses to a type other than T returns    *)
(* the TypeMismatch error and changes nothing: the header, the regions,    *)
(* and with them the slot and presence bit of every index written so far.  *)
(***************************************************************************)
C1_TypeLockIn ==
    [][ ( /\ IsSetStep
          /\ type_from_str(call'.type_str).some
          /\ \E T \in okTypes : type_from_str(call'.type_str).val # T )
        => ( /\ call'.result = TypeMismatch
             /\ header' = header
             /\ regions' = regions
             /\ \A i \in DOMAIN written :
                   Present(regions', i) /\ SlotAt(regions', i) = SlotAt(regions, i) ) ]_vars

\* a set of another type was refused after two sets had written values
C1_Witness ==
    /\ call.op = "set"
    /\ call.result = TypeMismatch
    /\ okSets >= 2
    /\ \A i \in DOMAIN written : Present(regions, i)

(***************************************************************************)
(* C2 - every set call that does not return Ok (invalid type name, type    *)
(* mismatch, index past the capacity) leaves header and regions exactly as *)
(* they were before the call.                                              *)
(***************************************************************************)
C2_FailedSetChangesNothing ==
    [][ (IsSetStep /\ call'.result # Ok) => (header' = header /\ regions' = regions) ]_vars

(***************************************************************************)
(* C3 - a set call with an index above 65535 whose type is accepted        *)
(* returns the IndexOutOfRange error: it does not panic, allocates no      *)
(* region, and leaves first and last alone.                                *)
(***************************************************************************)
IndexOutOfRange == "IndexOutOfRange"

C3_IndexOutOfRange ==
    [][ ( /\ IsSetStep
          /\ call'.index >= CapacityEnd
          /\ call'.result \notin {InvalidType, TypeMismatch} )
        => ( /\ call'.result = IndexOutOfRange
             /\ Len(regions') = Len(regions)
             /\ \A r \in 0..(Len(regions') - 1) : Allocated(regions', r) = Allocated(regions, r)
             /\ header'.regmap = header.regmap
             /\ header'.first = header.first
             /\ header'.last = header.last ) ]_vars

(***************************************************************************)
(* C4 - get_decimal(i) returns the RegionNotInitialized error whenever     *)
(* region i div 1024 is not an allocated decimal region: on a new Vector,  *)
(* past the end of the region collection, on an empty slot, and on an      *)
(* integer or double Vector.  (get_decimal changes nothing, so the state   *)
(* after the call is the state it read.)                                   *)
(***************************************************************************)
C4_RegionNotInitialized ==
    ( /\ call.op = "get_decimal"
      /\ \/ ~Allocated(regions, call.index \div REGION_SIZE)
         \/ (has_type(header) /\ get_vector_type(header) # VEC_TYPE_DECIMAL) )
    => call.result = RegionNotInitialized

(***************************************************************************)
(* C5 - read-your-writes on a decimal Vector: get_decimal(i) at an index   *)
(* that was written returns Ok with the decoding at scale 4 of the         *)
(* encoding of the value most recently written to i.                       *)
(***************************************************************************)
C5_ReadYourWrites ==
    (call.op = "get_decimal" /\ IsDecimalVector /\ call.index \in DOMAIN written)
    => ( /\ call.result = Ok
         /\ \E encoded \in {convert_to_fixed_point(written[call.index], DECIMAL_SCALE)} :
               call.ret = Some(convert_from_fixed_point(encoded, DECIMAL_SCALE)) )

\* a value was read back from the one index that two sets have written
C5_Witness ==
    /\ call.op = "get_decimal"
    /\ call.result = Ok
    /\ call.index \in DOMAIN written
    /\ Cardinality(DOMAIN written) = 1
    /\ okSets >= 2

(***************************************************************************)
(* C6 as claimed - on a decimal Vector, get_decimal(i) at an index that no *)
(* successful set has written fails with NoValueAtIndex.  The calls that   *)
(* panic (C4) are left aside: the statement fails among the calls that     *)
(* return.                                                                 *)
(***************************************************************************)
C6_NeverWrittenIsNoValue ==
    ( /\ call.op = "get_decimal"
      /\ IsDecimalVector
      /\ call.index \notin DOMAIN written
      /\ call.result # Panic )
    => call.result = NoValueAtIndex

(***************************************************************************)
(* C6 as amended - on a decimal Vector, get_decimal(i) at a never-written  *)
(* index whose region i div 1024 is allocated fails with NoValueAtIndex,   *)
(* and get_decimal returns a value only for indices that were written.     *)
(***************************************************************************)
C6_NeverWrittenInAllocatedRegion ==
    call.op = "get_decimal"
    => ( /\ ( /\ IsDecimalVector
              /\ call.index \notin DOMAIN written
              /\ Allocated(regions, call.index \div REGION_SIZE) )
            => call.result = NoValueAtIndex
         /\ call.result = Ok => call.index \in DOMAIN written )

\* a never-written index was read in a region that holds another value
C6_Witness ==
    /\ call.op = "get_decimal"
    /\ call.result = NoValueAtIndex
    /\ call.index \notin DOMAIN written
    /\ \E i \in DOMAIN written : i \div REGION_SIZE = call.index \div REGION_SIZE

(***************************************************************************)
(* C7 - a set call that returns Ok at index j leaves the slot and the      *)
(* presence bit of every other index unchanged: every other region is      *)
(* untouched, and in the region of j every other bitmap byte, every other  *)
(* bit of j's byte and every other slot keep their value (an index of a    *)
(* region allocated by this call was absent before and is absent after).   *)
(* "Equal except at k" is written as: putting the old entry back at k      *)
(* gives the old array.                                                    *)
(***************************************************************************)
BitmapOrEmpty(regs, r) == IF Allocated(regs, r) THEN RegionOrNone(regs, r).bitmap ELSE EmptyBitmap

BitOf(byte, bit) == (byte \div Pow2(bit)) % 2

C7_SetFrame ==
    [][ (IsSetStep /\ call'.result = Ok)
        => LET rj  == call'.index \div REGION_SIZE
               oj  == call'.index % REGION_SIZE
               was == BitmapOrEmpty(regions, rj)
               now == BitmapOrEmpty(regions', rj)
           IN  /\ Len(regions') >= Len(regions)
               /\ \A fr \in (0..(Len(regions') - 1)) \ {rj} :
                     RegionOrNone(regions', fr) = RegionOrNone(regions, fr)
               /\ [now EXCEPT ![oj \div 8] = was[oj \div 8]] = was
               /\ \A ft \in (0..7) \ {oj % 8} :
                     BitOf(now[oj \div 8], ft) = BitOf(was[oj \div 8], ft)
               /\ Allocated(regions, rj)
                     => [RegionOrNone(regions', rj).data
                            EXCEPT ![oj] = RegionOrNone(regions, rj).data[oj]]
                        = RegionOrNone(regions, rj).data
               /\ \A i \in (DOMAIN written) \ {call'.index} :
                     Present(regions', i) /\ SlotAt(regions', i) = SlotAt(regions, i) ]_vars

\* a set has written a second index next to one written before
C7_Witness ==
    /\ call.op = "set"
    /\ call.result = Ok
    /\ \E i \in DOMAIN written :
          /\ i # call.index
          /\ i \div 8 = call.index \div 8
          /\ Present(regions, i)

(***************************************************************************)
(* C8 - a set call at index i touches no region other than i div 1024, so  *)
(* it allocates at most that one region; when it returns Ok its value is   *)
(* stored in region i div 1024 at offset i mod 1024; once 1023 and 1024    *)
(* are both written they sit in regions 0 and 1 and both hold their value  *)
(* (which get_decimal returns, on a decimal Vector).                       *)
(***************************************************************************)
\* what set_value stores for a value on a vector of header h
StoredForm(h, value) ==
    IF get_vector_type(h) = VEC_TYPE_INT THEN F64ToI64(value)
    ELSE IF get_vector_type(h) = VEC_TYPE_DECIMAL THEN convert_to_fixed_point(value, DECIMAL_SCALE)
    ELSE value

AllocatedCount(regs) == Cardinality({cr \in 0..(Len(regs) - 1) : Allocated(regs, cr)})

C8_RegionPlacement ==
    [][ IsSetStep
        => LET ri == call'.index \div REGION_SIZE
           IN  /\ \A pr \in (0..(Len(regions') - 1)) \ {ri} :
                     RegionOrNone(regions', pr) = RegionOrNone(regions, pr)
               /\ AllocatedCount(regions') <= AllocatedCount(regions) + 1
               /\ call'.result = Ok
                     => /\ Allocated(regions', ri)
                        /\ Present(regions', call'.index)
                        /\ SlotAt(regions', call'.index) = StoredForm(header', written'[call'.index])
               /\ (call'.result = Ok /\ {REGION_SIZE - 1, REGION_SIZE} \subseteq DOMAIN written')
                     => /\ Allocated(regions', 0) /\ Allocated(regions', 1)
                        /\ \A i \in {REGION_SIZE - 1, REGION_SIZE} :
                              /\ Present(regions', i)
                              /\ SlotAt(regions', i) = StoredForm(header', written'[i])
                              /\ get_vector_type(header') = VEC_TYPE_DECIMAL
                                    => get_decimal(regions', i).result = Ok ]_vars

\* 1023 and 1024 are both written, in two allocated regions
C8_Witness ==
    /\ call.op = "set"
    /\ call.result = Ok
    /\ {REGION_SIZE - 1, REGION_SIZE} \subseteq DOMAIN written
    /\ Allocated(regions, 0)
    /\ Allocated(regions, 1)

(***************************************************************************)
(* C9 - header count equals the number of set calls that returned Ok: an   *)
(* overwrite counts again, a failed set does not count.                    *)
(***************************************************************************)
C9_CountIsSuccessfulSets == header.count = okSets

\* two sets wrote the same index and a third set failed
C9_Witness ==
    /\ okSets = 2
    /\ Cardinality(DOMAIN written) = 1
    /\ nSets = 3
    /\ header.count = 2

(***************************************************************************)
(* C10 - once a set call has returned Ok, header first is the smallest     *)
(* index ever written, also when index 0 was never written.                *)
(***************************************************************************)
SmallestWritten == CHOOSE m \in DOMAIN written : \A k \in DOMAIN written : m <= k

C10_FirstIsSmallestWritten == okSets > 0 => header.first = SmallestWritten

(***************************************************************************)
(* C11 - once a set call has returned Ok, header last is the largest index *)
(* ever written, and no call (set or get_decimal, returning or not) makes  *)
(* last smaller.                                                           *)
(***************************************************************************)
LargestWritten(w) == CHOOSE m \in DOMAIN w : \A k \in DOMAIN w : m >= k

C11_LastIsLargestWritten ==
    [][ /\ okSets > 0 => header.last = LargestWritten(written)
        /\ okSets' > 0 => header'.last = LargestWritten(written')
        /\ header'.last >= header.last ]_vars

\* a set below the largest written index returned Ok and last stayed above it
C11_Witness ==
    /\ call.op = "set"
    /\ call.result = Ok
    /\ okSets >= 2
    /\ call.index < header.last
    /\ header.last = REGION_SIZE

(***************************************************************************)
(* C12 - the type state only moves Untyped -> Typed(kind): once type_field *)
(* carries the marker 0x8B00, every call (set or get_decimal, returning Ok,*)
(* an error, or not returning) leaves type_field as it is: the marker and  *)
(* the tag stay.                                                           *)
(***************************************************************************)
C12_TypeStateMonotone ==
    [][ AndInt(header.type_field, VECTOR_MAGIC) = VECTOR_MAGIC
        => /\ header'.type_field = header.type_field
           /\ AndInt(header'.type_field, VECTOR_MAGIC) = VECTOR_MAGIC
           /\ AndInt(header'.type_field, 255) = AndInt(header.type_field, 255) ]_vars

\* a typed Vector has refused a set of another type and kept its tag
C12_Witness ==
    /\ call.op = "set"
    /\ call.result = TypeMismatch
    /\ has_type(header)
    /\ okTypes = {get_vector_type(header)}
    /\ type_from_str(call.type_str).val # get_vector_type(header)

(***************************************************************************)
(* C15 - for every region number r in 0..63, regmap[r] is 1 exactly when   *)
(* region r is allocated in the region collection and 0 otherwise, before  *)
(* and after every call; an entry that is 1 stays 1.                       *)
(***************************************************************************)
RegmapMatches(h, regs) ==
    \A r \in 0..(VEC_NUM_REGIONS - 1) :
       /\ h.regmap[r] \in {0, 1}
       /\ h.regmap[r] = 1 <=> Allocated(regs, r)

C15_RegmapTracksAllocation ==
    [][ /\ RegmapMatches(header, regions)
        /\ RegmapMatches(header', regions')
        /\ \A r \in 0..(VEC_NUM_REGIONS - 1) :
              header.regmap[r] = 1 => header'.regmap[r] = 1 ]_vars

\* region 1 is allocated and marked while region 0 is an empty slot
C15_Witness ==
    /\ Len(regions) = 2
    /\ ~Allocated(regions, 0)
    /\ Allocated(regions, 1)
    /\ header.regmap[0] = 0
    /\ header.regmap[1] = 1
    /\ okSets >= 2

(***************************************************************************)
(* C16 - every allocated region has the kind the header's type tag names   *)
(* (and the header is typed), before and after every call; so the write of *)
(* set_value is never skipped: a set call that returns Ok has stored its   *)
(* value in the slot of its index and set the presence bit.                *)
(***************************************************************************)
\* the VectorRegion variant ensure_region allocates for a type tag
KindOfTag(tag) ==
    IF tag = VEC_TYPE_INT THEN "Integer"
    ELSE IF tag = VEC_TYPE_DECIMAL THEN "Decimal"
    ELSE IF tag = VEC_TYPE_DOUBLE THEN "Double"
    ELSE "none"

RegionsMatchTag(h, regs) ==
    \A r \in 0..(Len(regs) - 1) :
       Allocated(regs, r)
          => /\ AndInt(h.type_field, VECTOR_MAGIC) = VECTOR_MAGIC
             /\ RegionOrNone(regs, r).kind = KindOfTag(AndInt(h.type_field, 255))

C16_RegionKindIsHeaderTag ==
    [][ /\ RegionsMatchTag(header, regions)
        /\ RegionsMatchTag(header', regions')
        /\ (IsSetStep /\ call'.result = Ok)
              => /\ Present(regions', call'.index)
                 /\ RegionOrNone(regions', call'.index \div REGION_SIZE).kind
                       = KindOfTag(type_from_str(call'.type_str).val)
                 /\ SlotAt(regions', call'.index)
                       = StoredForm(header', written'[call'.index]) ]_vars

\* a double Vector holds two Double regions after two sets
C16_Witness ==
    /\ call.op = "set"
    /\ call.result = Ok
    /\ get_vector_type(header) = VEC_TYPE_DOUBLE
    /\ Len(regions) = 2
    /\ \A r \in {0, 1} : Allocated(regions, r) /\ RegionOrNone(regions, r).kind = "Double"
    /\ Present(regions, call.index)

(***************************************************************************)
(* C17 - the region collection only grows: after every call its length is  *)
(* 0 if no set has returned Ok and otherwise 1 + the largest region number *)
(* (index div 1024) of a set that returned Ok; no call makes it shorter;   *)
(* an allocated region stays allocated, with its kind, and is left as it   *)
(* is by a call at an index of another region; the slots of the region     *)
(* numbers no successful set has touched are empty.                        *)
(***************************************************************************)
C17_RegionsOnlyGrow ==
    [][ /\ Len(regions') = IF okSets' = 0 THEN 0
                           ELSE 1 + (LargestWritten(written') \div REGION_SIZE)
        /\ Len(regions') >= Len(regions)
        /\ \A r \in 0..(Len(regions) - 1) :
              Allocated(regions, r)
                 => /\ Allocated(regions', r)
                    /\ RegionOrNone(regions', r).kind = RegionOrNone(regions, r).kind
                    /\ (IsSetStep /\ r # call'.index \div REGION_SIZE)
                          => RegionOrNone(regions', r) = RegionOrNone(regions, r)
        /\ \A r \in 0..(Len(regions') - 1) :
              (\A i \in DOMAIN written' : i \div REGION_SIZE # r) => ~Allocated(regions', r) ]_vars

(***************************************************************************)
(* C13 - decimal round trip: for every value v of at most 4 decimal        *)
(* digits, decode(encode(v, 4), 4) is within 1e-9 of v.  The distance is   *)
(* compared exactly: |a - b| * 10^9 <= 1 on the two doubles as rationals.  *)
(***************************************************************************)
RECURSIVE LLessFrom(_, _, _)
LLessFrom(a, b, i) ==
    IF i = 0 THEN FALSE
    ELSE IF a[i] # b[i] THEN a[i] < b[i]
    ELSE LLessFrom(a, b, i - 1)

\* a < b for naturals
LLess(a, b) == IF Len(a) # Len(b) THEN Len(a) < Len(b) ELSE LLessFrom(a, b, Len(a))

\* |a - b| <= 10^-9 for two doubles
WithinTolerance(a, b) ==
    LET e    == Min(Min(a.exp, b.exp), 0)
        am   == LShl(a.mant, a.exp - e)
        bm   == LShl(b.mant, b.exp - e)
        diff == IF a.neg # b.neg THEN LAdd(am, bm)
                ELSE IF LLess(am, bm) THEN LSub(bm, am)
                ELSE LSub(am, bm)
    IN  ~LLess(LShl(<<1>>, -e), LMul(diff, LFromInt(1000000000)))

C13_DecimalRoundTrip ==
    (codec.pc = "decoded" /\ codec.value \in FourDecimalValues)
    => WithinTolerance(codec.decoded, codec.value)

(***************************************************************************)
(* C18 - the codec at the integer level: for every scaled integer n of the *)
(* i64 range, the most negative included, encode stores byte 0 = 1 if      *)
(* n < 0 and 0 otherwise and bytes 1-8 = the big-endian magnitude |n| (so  *)
(* it does not panic), and decode rebuilds from the 9 bytes the sign and   *)
(* the i64 value whose product is n.                                       *)
(***************************************************************************)
\* |v| of an i64 as a natural
I64Magnitude(v) == IF I64IsNeg(v) THEN LSub(I64Modulus, v) ELSE v

\* the natural whose big-endian bytes are bytes[1..i]
RECURSIVE BigEndianValue(_, _)
BigEndianValue(bytes, i) ==
    IF i = 0 THEN <<>>
    ELSE LAdd(LMulSmall(BigEndianValue(bytes, i - 1), 256), LFromInt(bytes[i]))

C18_CodecIntegerLevel ==
    /\ codec.pc # "panic"
    /\ codec.pc \in {"encoded", "decoded"}
          => \E rebuilt \in {LoadMagnitude(codec.bytes, 8)} :
                /\ codec.bytes[0] = IF I64IsNeg(codec.scaled) THEN 1 ELSE 0
                /\ BigEndianValue(codec.bytes, 8) = I64Magnitude(codec.scaled)
                /\ I64Magnitude(rebuilt) = I64Magnitude(codec.scaled)
                /\ \/ Len(codec.scaled) = 0
                   \/ ((codec.bytes[0] # 0) # I64IsNeg(rebuilt)) = I64IsNeg(codec.scaled)

(***************************************************************************)
(* C14 - the Vector offers get_integer and get_double with the contract of *)
(* get_decimal: on an integer Vector every index written by set is read    *)
(* back by the getter get_integer, and on a double Vector by the getter    *)
(* get_double.                                                             *)
(***************************************************************************)
C14_TypedGettersOffered ==
    \A i \in DOMAIN written :
       /\ get_vector_type(header) = VEC_TYPE_INT
             => \E getter \in VectorGetters :
                   getter = "get_integer" /\ CallGetter(getter, regions, i).result = Ok
       /\ get_vector_type(header) = VEC_TYPE_DOUBLE
             => \E getter \in VectorGetters :
                   getter = "get_double" /\ CallGetter(getter, regions, i).result = Ok

====
